---- MODULE Spec2Model ----
(***************************************************************************)
(* Model of src/main.rs: a Slack socket-mode client.  main() reads two     *)
(* tokens from the environment, asks apps.connections.open for a one-time  *)
(* websocket URL, opens tcp + tls + websocket to it, and then consumes     *)
(* the frame stream: every events_api message is acknowledged on the       *)
(* socket and its text is re-published through chat.postMessage.           *)
(*                                                                         *)
(* Strings that the program parses, compares or builds are sequences of    *)
(* one-character strings, so that JSON escaping, the borrowed-string       *)
(* deserialisation of SocketModeMessage and the "You said" template are    *)
(* computed and not assumed.                                               *)
(***************************************************************************)
EXTENDS Integers, Sequences, FiniteSets, TLC

VARIABLES
    pc,          \* position of main(): the await it is suspended on, or "done"
    env,         \* the process environment (two optional variables)
    config,      \* RawConfig built by from_env
    con_result,  \* Option<OpenConnectionsResponse> once the request returned
    requests,    \* Authorization headers of the apps.connections.open calls made
    transport,   \* transport steps started, in order: "parse","tcp","tls","ws"
    arrived,     \* items the stream has yielded to the loop so far, in order
    cur,         \* the text frame whose EventsApi arm is in progress
    sock,        \* text frames the client has written on the socket, in order
    pubs,        \* chat.postMessage calls issued, in order
    pubResults,  \* outcome of each chat.postMessage call that returned
    stdout,      \* println! lines, in order
    panic        \* Option: the message the process aborted with

vars == <<pc, env, config, con_result, requests, transport, arrived, cur,
          sock, pubs, pubResults, stdout, panic>>

\* Bound: the number of items the websocket stream yields in one run.
MaxFrames == 3

---------------------------------------------------------------------------
\* Option<T>
None == [some |-> FALSE, v |-> <<>>]
Some(x) == [some |-> TRUE, v |-> x]

\* The character U+0060 (it cannot be written inside a string here).
Backtick == "U+0060"

\* The characters of the string literals the program compares or emits.
hello_tag == <<"h","e","l","l","o">>
disconnect_tag == <<"d","i","s","c","o","n","n","e","c","t">>
events_api_tag == <<"e","v","e","n","t","s","_","a","p","i">>

---------------------------------------------------------------------------
(* JSON strings.  A string literal of a received text is kept as written   *)
(* between its quotes (raw); serde_json's parse_str borrows the slice from *)
(* the input when it holds no escape sequence and otherwise copies the     *)
(* unescaped characters to a scratch buffer.                               *)

HasEscape(raw) == \E i \in DOMAIN raw : raw[i] = "\\"

EscapedChar(c) ==
    CASE c = "n" -> "\n"
      [] c = "t" -> "\t"
      [] OTHER -> c          \* \" \\ \/ stand for the character itself

RECURSIVE Unescape(_)
Unescape(raw) ==
    IF raw = <<>> THEN <<>>
    ELSE IF Head(raw) = "\\" /\ Len(raw) >= 2
         THEN <<EscapedChar(raw[2])>> \o Unescape(SubSeq(raw, 3, Len(raw)))
         ELSE <<Head(raw)>> \o Unescape(Tail(raw))

parse_str(raw) == [borrowed |-> ~HasEscape(raw), s |-> Unescape(raw)]

\* A JSON value at a key of an object: absent, a string literal, or a value
\* of another JSON type.
JAbsent == [k |-> "absent", raw |-> <<>>]
JNumber == [k |-> "number", raw |-> <<>>]
JString(raw) == [k |-> "string", raw |-> raw]

\* serde_json::Value::as_str after Value parsing: an owned, unescaped string.
as_str(j) == IF j.k = "string" THEN Some(Unescape(j.raw)) ELSE None

\* Mutant: a field that is absent takes the default, the empty string.
deserialize_str_ref_Default(j) ==
    IF j.k = "absent" THEN Some(<<>>)
    ELSE IF j.k = "string" /\ parse_str(j.raw).borrowed
    THEN Some(parse_str(j.raw).s)
    ELSE None

\* Deserialising a field of type &'s str: only a borrowed string is accepted
\* (the visitor of &str implements visit_borrowed_str only).
deserialize_str_ref(j) ==
    IF j.k = "string" /\ parse_str(j.raw).borrowed
    THEN Some(parse_str(j.raw).s)
    ELSE None

\* serde_json's string serialisation: quote, backslash and control
\* characters are escaped, everything else is written as is.
RECURSIVE format_escaped_str_contents(_)
format_escaped_str_contents(s) ==
    IF s = <<>> THEN <<>>
    ELSE (CASE Head(s) = "\"" -> <<"\\", "\"">>
            [] Head(s) = "\\" -> <<"\\", "\\">>
            [] Head(s) = "\n" -> <<"\\", "n">>
            [] Head(s) = "\t" -> <<"\\", "t">>
            [] OTHER -> <<Head(s)>>)
         \o format_escaped_str_contents(Tail(s))

---------------------------------------------------------------------------
(* Websocket messages.  A text message is described by what its JSON text  *)
(* holds at the paths the program looks at: type, reason, envelope_id,     *)
(* payload, payload.event, payload.event.channel, payload.event.text.      *)

Message(ws) ==
    [ws |-> ws, json |-> "none", type |-> JAbsent, reason |-> JAbsent,
     envelope_id |-> JAbsent, payload |-> "absent", event |-> "absent",
     channel |-> JAbsent, text |-> JAbsent]

NoMessage == Message("")
InvalidJson == [Message("Text") EXCEPT !.json = "invalid"]
Object(tag) == [Message("Text") EXCEPT !.json = "object", !.type = tag]

E1 == <<"E","1">>
E2 == <<"E","2">>
E3Escaped == <<"E","\\","/","3">>          \* the literal "E\/3", i.e. E/3
C1 == <<"C","1">>
C2 == <<"C","2">>
hi == <<"h","i">>
QuotedRaw == <<"a","\\","\"","b">>         \* the literal "a\"b", i.e. a"b
bye == <<"b","y","e">>

\* The payload shapes of an events_api message.
WithEvent(m, channel, text) ==
    [m EXCEPT !.payload = "object", !.event = "object",
              !.channel = channel, !.text = text]

EventShapes(m) ==
    { m,                                                  \* no payload
      [m EXCEPT !.payload = "object"],                    \* payload without event
      WithEvent(m, JString(C1), JString(hi)),
      WithEvent(m, JAbsent, JString(hi)),
      WithEvent(m, JString(C1), JAbsent),
      WithEvent(m, JString(C1), JNumber) }

EventsApiOf(id) == [Object(JString(events_api_tag)) EXCEPT !.envelope_id = id]
DisconnectOf(reason) == [Object(JString(disconnect_tag)) EXCEPT !.reason = reason]
HelloMessage == Object(JString(hello_tag))

TextMessages ==
    {HelloMessage}
    \cup { DisconnectOf(r) : r \in {JAbsent, JNumber, JString(<<>>), JString(bye),
                                    JString(QuotedRaw)} }
    \cup EventShapes(EventsApiOf(JString(E1)))
    \cup { WithEvent(EventsApiOf(JString(E2)), JString(C2), JString(QuotedRaw)) }
    \cup { EventsApiOf(JString(E3Escaped)),
           WithEvent(EventsApiOf(JString(E3Escaped)), JString(C1), JString(hi)) }
    \cup { WithEvent(EventsApiOf(id), JString(C1), JString(hi)) : id \in {JAbsent, JNumber} }
    \cup { InvalidJson, Object(JAbsent), Object(JString(bye)) }

Messages ==
    TextMessages \cup { Message(w) : w \in {"Ping", "Binary", "Close", "Pong"} }

---------------------------------------------------------------------------
(* SocketModeMessage: an internally tagged enum, tag "type", variant names *)
(* in snake_case; reason and envelope_id are borrowed strings.             *)

SocketModeMessage(variant, field) == [ok |-> TRUE, variant |-> variant, field |-> field]
ParseError == [ok |-> FALSE, variant |-> "", field |-> <<>>]

Field(variant, j) ==
    IF deserialize_str_ref(j).some
    THEN SocketModeMessage(variant, deserialize_str_ref(j).v)
    ELSE ParseError

from_str(t) ==
    IF t.json # "object" \/ t.type.k # "string" THEN ParseError
    ELSE CASE parse_str(t.type.raw).s = hello_tag -> SocketModeMessage("Hello", <<>>)
           [] parse_str(t.type.raw).s = disconnect_tag -> Field("Disconnect", t.reason)
           [] parse_str(t.type.raw).s = events_api_tag -> Field("EventsApi", t.envelope_id)
           [] OTHER -> ParseError

\* The text messages by the arm of the match that serde_json::from_str(&t)
\* selects for them.
Parsed(variant) == { t \in TextMessages : from_str(t).ok /\ from_str(t).variant = variant }
HelloTexts == Parsed("Hello")
DisconnectTexts == Parsed("Disconnect")
EventsApiTexts == Parsed("EventsApi")
UnknownTexts == { t \in TextMessages : ~from_str(t).ok }

\* serde_json::from_str::<serde_json::Value>: any valid JSON text parses.
from_str_value(t) == t.json = "object"

\* v.get("payload").and_then(|v| v.get("event"))
get_event(t) == t.payload = "object" /\ t.event # "absent"
\* event.get(key).and_then(|v| v.as_str())
get_str(t, j) == IF get_event(t) /\ t.event = "object" THEN as_str(j) ELSE None

---------------------------------------------------------------------------
(* SocketModeAcknowledgeMessage and its serialisation: payload is skipped  *)
(* when it is None.                                                        *)

envelope_id_key == <<"e","n","v","e","l","o","p","e","_","i","d">>
payload_key == <<"p","a","y","l","o","a","d">>

SocketModeAcknowledgeMessage(envelope_id, payload) ==
    [envelope_id |-> envelope_id, payload |-> payload]

Quoted(s) == <<"\"">> \o format_escaped_str_contents(s) \o <<"\"">>

\* Mutant: payload is serialised also when it is None (no skip_serializing_if).
to_string_PayloadNull(ack) ==
    <<"{">> \o Quoted(envelope_id_key) \o <<":">> \o Quoted(ack.envelope_id)
    \o <<",">> \o Quoted(payload_key) \o <<":">>
    \o (IF ack.payload.some THEN Quoted(ack.payload.v) ELSE <<"n","u","l","l">>)
    \o <<"}">>

to_string(ack) ==
    <<"{">> \o Quoted(envelope_id_key) \o <<":">> \o Quoted(ack.envelope_id)
    \o (IF ack.payload.some
        THEN <<",">> \o Quoted(payload_key) \o <<":">> \o Quoted(ack.payload.v)
        ELSE <<>>)
    \o <<"}">>

\* The acknowledgement main() builds for an envelope id (payload: None).
AckText(envelope_id) == to_string(SocketModeAcknowledgeMessage(envelope_id, None))

\* format!("You said: {}", format!("```{}```", text))
YouSaid == <<"Y","o","u"," ","s","a","i","d",":"," ">>
Fence == <<Backtick, Backtick, Backtick>>
FormatText(text) == YouSaid \o (Fence \o text \o Fence)

\* The request SlackClient::send_message posts to chat.postMessage.
send_message(token, channel, text) ==
    [authorization |-> <<"Bearer", token>>,
     body |-> [channel |-> channel, text |-> text]]

---------------------------------------------------------------------------
(* The inputs of a run.                                                    *)

AppToken == "xapp-1"
UserToken == "xoxp-1"

Environments ==
    [SLACK_APP_LEVEL_TOKEN : {None, Some(AppToken)},
     SLACK_USER_OAUTH_TOKEN : {None, Some(UserToken)}]

\* A url string, with what url::Url::parse and Url::domain make of it.
Urls ==
    { [text |-> "wss://x/y", parses |-> TRUE, domain |-> Some("x")],
      [text |-> "wss://10.0.0.1/y", parses |-> TRUE, domain |-> None],
      [text |-> "x/y", parses |-> FALSE, domain |-> None] }

\* OpenConnectionsResponse
Descriptors ==
    [ok : BOOLEAN,
     url : {None} \cup { Some(u) : u \in Urls },
     error : {None, Some("invalid_auth")}]

\* How a chat.postMessage call ends: a surf error, or a response of any
\* status, whose body recv_string reads and send_message drops.
PublishOutcomes == {"error", "response_success", "response_failure"}

StreamItem(res, m) == [res |-> res, msg |-> m]

---------------------------------------------------------------------------
Line(label, t, s) == [label |-> label, t |-> t, s |-> s]

\* The protocol state of the session.
State ==
    CASE pc \in {"start", "open_connections", "tcp_connect", "tls_connect",
                 "client_async"} -> "Connecting"
      [] pc \in {"next", "send", "send_message"} -> "Active"
      [] OTHER -> "Terminated"

Init ==
    /\ pc = "start"
    /\ env \in Environments
    /\ config = None
    /\ con_result = None
    /\ requests = <<>>
    /\ transport = <<>>
    /\ arrived = <<>>
    /\ cur = NoMessage
    /\ sock = <<>>
    /\ pubs = <<>>
    /\ pubResults = <<>>
    /\ stdout = <<>>
    /\ panic = None

\* expect / panic!: the process aborts with a message.
Abort(msg) ==
    /\ pc' = "done"
    /\ panic' = Some(msg)

\* Mutant: a missing SLACK_USER_OAUTH_TOKEN is read as the empty token.
from_env_UserDefault(e) ==
    IF ~e.SLACK_APP_LEVEL_TOKEN.some
    THEN [ok |-> FALSE, config |-> None,
          msg |-> <<"Please set the environment variable ", "SLACK_APP_LEVEL_TOKEN">>]
    ELSE [ok |-> TRUE,
          config |-> Some([app_level_token |-> e.SLACK_APP_LEVEL_TOKEN.v,
                           user_oauth_token |->
                              IF e.SLACK_USER_OAUTH_TOKEN.some
                              THEN e.SLACK_USER_OAUTH_TOKEN.v ELSE ""]),
          msg |-> <<>>]

\* RawConfig::from_env
from_env(e) ==
    IF ~e.SLACK_APP_LEVEL_TOKEN.some
    THEN [ok |-> FALSE, config |-> None,
          msg |-> <<"Please set the environment variable ", "SLACK_APP_LEVEL_TOKEN">>]
    ELSE IF ~e.SLACK_USER_OAUTH_TOKEN.some
    THEN [ok |-> FALSE, config |-> None,
          msg |-> <<"Please set the environment variable ", "SLACK_USER_OAUTH_TOKEN">>]
    ELSE [ok |-> TRUE,
          config |-> Some([app_level_token |-> e.SLACK_APP_LEVEL_TOKEN.v,
                           user_oauth_token |-> e.SLACK_USER_OAUTH_TOKEN.v]),
          msg |-> <<>>]

\* The request open_connections posts to apps.connections.open.
open_connections(token) == [authorization |-> <<"Bearer", token>>]

\* Mutant: the client is built with the app-level token.
slack_client_AppToken == [token |-> config.v.app_level_token]

\* SlackClient { token: config.user_oauth_token }
slack_client == [token |-> config.v.user_oauth_token]

\* main, from its start to the await of open_connections.
Start ==
    /\ pc = "start"
    /\ IF from_env(env).ok
       THEN /\ config' = from_env(env).config
            /\ requests' = Append(requests,
                                  open_connections(from_env(env).config.v.app_level_token))
            /\ pc' = "open_connections"
            /\ panic' = panic
       ELSE /\ Abort(from_env(env).msg)
            /\ UNCHANGED <<config, requests>>
    /\ UNCHANGED <<env, con_result, transport, arrived, cur, sock, pubs,
                   pubResults, stdout>>

\* open_connections returned an error (network, or a body that is no descriptor).
OpenConnectionsFailed ==
    /\ pc = "open_connections"
    /\ Abort(<<"Failed to request apps.connections.open">>)
    /\ UNCHANGED <<env, config, con_result, requests, transport, arrived, cur,
                   sock, pubs, pubResults, stdout>>

\* Mutant: the ok flag of the descriptor is not looked at.
OpenConnectionsReturned_OkUnchecked ==
    /\ pc = "open_connections"
    /\ \E d \in Descriptors :
        /\ con_result' = Some(d)
        /\ IF ~d.url.some
           THEN /\ Abort(<<"no url passed from server">>)
                /\ transport' = transport
           ELSE IF ~d.url.v.parses
           THEN /\ Abort(<<"Failed to parse entrypoint url">>)
                /\ transport' = Append(transport, "parse")
           ELSE IF ~d.url.v.domain.some
           THEN /\ Abort(<<"no domain name?">>)
                /\ transport' = Append(transport, "parse")
           ELSE /\ transport' = transport \o <<"parse", "tcp">>
                /\ pc' = "tcp_connect"
                /\ panic' = panic
    /\ UNCHANGED <<env, config, requests, arrived, cur, sock, pubs, pubResults,
                   stdout>>

\* open_connections returned a descriptor: main up to the await of the tcp connect.
OpenConnectionsReturned ==
    /\ pc = "open_connections"
    /\ \E d \in Descriptors :
        /\ con_result' = Some(d)
        /\ IF ~d.ok
           THEN /\ Abort(<<"app.connections.open failed: ",
                           IF d.error.some THEN d.error.v ELSE "Unknown error">>)
                /\ transport' = transport
           ELSE IF ~d.url.some
           THEN /\ Abort(<<"no url passed from server">>)
                /\ transport' = transport
           ELSE IF ~d.url.v.parses
           THEN /\ Abort(<<"Failed to parse entrypoint url">>)
                /\ transport' = Append(transport, "parse")
           ELSE IF ~d.url.v.domain.some
           THEN /\ Abort(<<"no domain name?">>)
                /\ transport' = Append(transport, "parse")
           ELSE /\ transport' = transport \o <<"parse", "tcp">>
                /\ pc' = "tcp_connect"
                /\ panic' = panic
    /\ UNCHANGED <<env, config, requests, arrived, cur, sock, pubs, pubResults,
                   stdout>>

\* Mutant: a transport step that failed is started again.
TransportStep_Retry(at, msg, nextStep, to) ==
    /\ pc = at
    /\ \E ok \in BOOLEAN :
        IF ok
        THEN /\ pc' = to
             /\ transport' = transport \o nextStep
             /\ panic' = panic
        ELSE /\ Len(transport) < 6
             /\ pc' = pc
             /\ transport' = Append(transport, transport[Len(transport)])
             /\ panic' = panic
    /\ UNCHANGED <<env, config, con_result, requests, arrived, cur, sock, pubs,
                   pubResults, stdout>>

\* One transport step returned: on success the next one is started.
TransportStep(at, msg, nextStep, to) ==
    /\ pc = at
    /\ \E ok \in BOOLEAN :
        IF ok
        THEN /\ pc' = to
             /\ transport' = transport \o nextStep
             /\ panic' = panic
        ELSE /\ Abort(<<msg>>)
             /\ transport' = transport
    /\ UNCHANGED <<env, config, con_result, requests, arrived, cur, sock, pubs,
                   pubResults, stdout>>

TcpConnect ==
    TransportStep("tcp_connect", "Failed to connect tcp stream", <<"tls">>, "tls_connect")

TlsConnect ==
    TransportStep("tls_connect", "Failed to connect encrypted stream", <<"ws">>,
                  "client_async")

\* The websocket upgrade returned: on success the loop awaits its first item.
ClientAsync ==
    TransportStep("client_async", "Failed to connect websocket", <<>>, "next")

---------------------------------------------------------------------------
(* The dispatch loop: while let Some(m) = stream.next().await              *)

\* Mutant: the next item is pulled without awaiting the publish call.
Yields_WhilePublishing(m) ==
    /\ pc \in {"next", "send_message"}
    /\ Len(arrived) < MaxFrames
    /\ arrived' = Append(arrived, StreamItem("Ok", m))

\* The stream yields message m to the loop.
Yields(m) ==
    /\ pc = "next"
    /\ Len(arrived) < MaxFrames
    /\ arrived' = Append(arrived, StreamItem("Ok", m))

Println(label, t, s) == stdout' = Append(stdout, Line(label, t, s))

\* Mutant: when the stream ends the session is set up again.
StreamEnd_Reconnect ==
    /\ pc = "next"
    /\ arrived' = Append(arrived, StreamItem("None", NoMessage))
    /\ pc' = "start"
    /\ UNCHANGED <<env, config, con_result, requests, transport, cur, sock,
                   pubs, pubResults, stdout, panic>>

\* stream.next() is None: the loop and main end.
StreamEnd ==
    /\ pc = "next"
    /\ arrived' = Append(arrived, StreamItem("None", NoMessage))
    /\ pc' = "done"
    /\ UNCHANGED <<env, config, con_result, requests, transport, cur, sock,
                   pubs, pubResults, stdout, panic>>

\* stream.next() is Some(Err(_)).
\* Mutant: an item that failed to decode is logged and skipped.
DecodeError_Skipped ==
    /\ pc = "next"
    /\ Len(arrived) < MaxFrames
    /\ arrived' = Append(arrived, StreamItem("Err", NoMessage))
    /\ Println("Failed to decode websocket frame", NoMessage, <<>>)
    /\ UNCHANGED <<pc, env, config, con_result, requests, transport, cur, sock,
                   pubs, pubResults, panic>>

DecodeError ==
    /\ pc = "next"
    /\ Len(arrived) < MaxFrames
    /\ arrived' = Append(arrived, StreamItem("Err", NoMessage))
    /\ Abort(<<"Failed to decode websocket frame">>)
    /\ UNCHANGED <<env, config, con_result, requests, transport, cur, sock,
                   pubs, pubResults, stdout>>

\* Mutant: a hello is answered on the socket.
Hello_Replies ==
    \E t \in HelloTexts :
        /\ Yields(t)
        /\ Println("Hello: ", t, <<>>)
        /\ sock' = Append(sock, AckText(<<>>))
        /\ UNCHANGED <<pc, env, config, con_result, requests, transport, cur,
                       pubs, pubResults, panic>>

Hello ==
    \E t \in HelloTexts :
        /\ Yields(t)
        /\ Println("Hello: ", t, <<>>)
        /\ UNCHANGED <<pc, env, config, con_result, requests, transport, cur,
                       sock, pubs, pubResults, panic>>

\* Mutant: the Disconnect arm does not break.
Disconnect_NoBreak ==
    \E t \in DisconnectTexts :
        /\ Yields(t)
        /\ Println("Disconnect request: ", NoMessage, from_str(t).field)
        /\ UNCHANGED <<pc, env, config, con_result, requests, transport, cur, sock,
                       pubs, pubResults, panic>>

Disconnect ==
    \E t \in DisconnectTexts :
        /\ Yields(t)
        /\ Println("Disconnect request: ", NoMessage, from_str(t).field)
        /\ pc' = "done"                                    \* break
        /\ UNCHANGED <<env, config, con_result, requests, transport, cur, sock,
                       pubs, pubResults, panic>>

\* Mutant: an envelope id that was acknowledged before is not handled again.
EventsApi_Dedup ==
    \E t \in EventsApiTexts :
        /\ Yields(t)
        /\ Println("Events API Message: ", t, <<>>)
        /\ IF \E k \in 1..Len(sock) : sock[k] = AckText(from_str(t).field)
           THEN UNCHANGED <<pc, cur>>
           ELSE cur' = t /\ pc' = "send"
        /\ UNCHANGED <<env, config, con_result, requests, transport, sock, pubs,
                       pubResults, panic>>

\* The EventsApi arm up to the await of the acknowledgement's send.
EventsApi ==
    \E t \in EventsApiTexts :
        /\ Yields(t)
        /\ Println("Events API Message: ", t, <<>>)
        /\ cur' = t
        /\ pc' = "send"
        /\ UNCHANGED <<env, config, con_result, requests, transport, sock, pubs,
                       pubResults, panic>>

\* Mutant: the result of the acknowledgement's send is dropped.
AckSent_FailureIgnored ==
    /\ pc = "send"
    /\ \E ok \in BOOLEAN :
        /\ sock' = IF ok THEN Append(sock, AckText(from_str(cur).field)) ELSE sock
        /\ IF ~from_str_value(cur)
           THEN /\ Println("Failed to parse event: ", cur, <<>>)
                /\ pc' = "next"
                /\ UNCHANGED <<pubs, panic>>
           ELSE IF ~get_event(cur)
           THEN Abort(<<"Failed to get event">>) /\ UNCHANGED <<pubs, stdout>>
           ELSE IF ~get_str(cur, cur.channel).some
           THEN Abort(<<"Failed to get channel id">>) /\ UNCHANGED <<pubs, stdout>>
           ELSE IF ~get_str(cur, cur.text).some
           THEN Abort(<<"Failed to get text">>) /\ UNCHANGED <<pubs, stdout>>
           ELSE /\ pubs' = Append(pubs,
                       send_message(slack_client.token,
                                    get_str(cur, cur.channel).v,
                                    FormatText(get_str(cur, cur.text).v)))
                /\ pc' = "send_message"
                /\ UNCHANGED <<stdout, panic>>
    /\ UNCHANGED <<env, config, con_result, requests, transport, arrived, cur,
                   pubResults>>

\* The send of the acknowledgement returned: on success the rest of the
\* EventsApi arm, up to the await of send_message.
AckSent ==
    /\ pc = "send"
    /\ \E ok \in BOOLEAN :
        IF ~ok
        THEN /\ Abort(<<"Failed to reply ack message">>)
             /\ UNCHANGED <<sock, pubs, stdout>>
        ELSE /\ sock' = Append(sock, AckText(from_str(cur).field))
             /\ IF ~from_str_value(cur)
                THEN /\ Println("Failed to parse event: ", cur, <<>>)
                     /\ pc' = "next"
                     /\ UNCHANGED <<pubs, panic>>
                ELSE IF ~get_event(cur)
                THEN Abort(<<"Failed to get event">>) /\ UNCHANGED <<pubs, stdout>>
                ELSE IF ~get_str(cur, cur.channel).some
                THEN Abort(<<"Failed to get channel id">>) /\ UNCHANGED <<pubs, stdout>>
                ELSE IF ~get_str(cur, cur.text).some
                THEN Abort(<<"Failed to get text">>) /\ UNCHANGED <<pubs, stdout>>
                ELSE /\ pubs' = Append(pubs,
                            send_message(slack_client.token,
                                         get_str(cur, cur.channel).v,
                                         FormatText(get_str(cur, cur.text).v)))
                     /\ pc' = "send_message"
                     /\ UNCHANGED <<stdout, panic>>
    /\ UNCHANGED <<env, config, con_result, requests, transport, arrived, cur,
                   pubResults>>

\* Mutant: a publish call that returned an error is issued again.
Published_Retry ==
    /\ pc = "send_message"
    /\ \E r \in PublishOutcomes :
        /\ pubResults' = Append(pubResults, r)
        /\ IF r = "error"
           THEN /\ Len(pubs) < MaxFrames + 2
                /\ pubs' = Append(pubs, pubs[Len(pubs)])
                /\ pc' = pc
           ELSE pc' = "next" /\ pubs' = pubs
        /\ panic' = panic
    /\ UNCHANGED <<env, config, con_result, requests, transport, arrived, cur,
                   sock, stdout>>

\* Mutant: the result of send_message is dropped.
Published_ErrorIgnored ==
    /\ pc = "send_message"
    /\ \E r \in PublishOutcomes :
        /\ pubResults' = Append(pubResults, r)
        /\ pc' = "next" /\ panic' = panic
    /\ UNCHANGED <<env, config, con_result, requests, transport, arrived, cur,
                   sock, pubs, stdout>>

\* send_message returned: only an Err aborts; a response of any status is Ok(()).
Published ==
    /\ pc = "send_message"
    /\ \E r \in PublishOutcomes :
        /\ pubResults' = Append(pubResults, r)
        /\ IF r = "error"
           THEN Abort(<<"Failed to send message">>)
           ELSE pc' = "next" /\ panic' = panic
    /\ UNCHANGED <<env, config, con_result, requests, transport, arrived, cur,
                   sock, pubs, stdout>>

\* Mutant: a text frame that does not parse aborts the process.
UnknownText_Fatal ==
    \E t \in UnknownTexts :
        /\ Yields(t)
        /\ Abort(<<"Failed to parse text frame">>)
        /\ UNCHANGED <<env, config, con_result, requests, transport, cur,
                       sock, pubs, pubResults, stdout>>

\* A text frame that is no SocketModeMessage.
UnknownText ==
    \E t \in UnknownTexts :
        /\ Yields(t)
        /\ Println("Unknown text frame: ", t, <<>>)
        /\ UNCHANGED <<pc, env, config, con_result, requests, transport, cur,
                       sock, pubs, pubResults, panic>>

\* Mutant: the Ping arm writes a reply on the socket.
Ping_RepliesPong ==
    /\ Yields(Message("Ping"))
    /\ Println("ping: ", Message("Ping"), <<>>)
    /\ sock' = Append(sock, <<"p","o","n","g">>)
    /\ UNCHANGED <<pc, env, config, con_result, requests, transport, cur,
                   pubs, pubResults, panic>>

Ping ==
    /\ Yields(Message("Ping"))
    /\ Println("ping: ", Message("Ping"), <<>>)
    /\ UNCHANGED <<pc, env, config, con_result, requests, transport, cur, sock,
                   pubs, pubResults, panic>>

UnknownFrame ==
    \E m \in Messages \ (TextMessages \cup {Message("Ping")}) :
        /\ Yields(m)
        /\ Println("Unknown frame", NoMessage, <<>>)
        /\ UNCHANGED <<pc, env, config, con_result, requests, transport, cur,
                       sock, pubs, pubResults, panic>>

Next ==
    \/ Start
    \/ OpenConnectionsFailed
    \/ OpenConnectionsReturned
    \/ TcpConnect
    \/ TlsConnect
    \/ ClientAsync
    \/ StreamEnd
    \/ DecodeError
    \/ Hello
    \/ Disconnect
    \/ EventsApi
    \/ AckSent
    \/ Published
    \/ UnknownText
    \/ Ping
    \/ UnknownFrame

Spec == Init /\ [][Next]_vars

TypeOK ==
    /\ pc \in {"start", "open_connections", "tcp_connect", "tls_connect",
               "client_async", "next", "send", "send_message", "done"}
    /\ Len(arrived) <= MaxFrames + 1

---------------------------------------------------------------------------
(* Serialisation of an acknowledgement on its own: serde_json::to_string   *)
(* applied to a SocketModeAcknowledgeMessage with any envelope id.         *)

\* Bound: the length of the envelope ids that are enumerated.
MaxIdLen == 3

IdAlphabet == {"a", "\"", "\\", "\n"}

RECURSIVE StringsUpTo(_)
StringsUpTo(n) ==
    IF n = 0 THEN {<<>>}
    ELSE StringsUpTo(n - 1)
         \cup { Append(s, c) : s \in { x \in StringsUpTo(n - 1) : Len(x) = n - 1 },
                               c \in IdAlphabet }

abc123 == <<"a","b","c","1","2","3">>

AckMessages ==
    { SocketModeAcknowledgeMessage(id, p) :
        id \in StringsUpTo(MaxIdLen) \cup {abc123}, p \in {None, Some(<<"a">>)} }

SerializeInit ==
    /\ pc = "to_string"
    /\ cur \in AckMessages
    /\ env = [SLACK_APP_LEVEL_TOKEN |-> Some(AppToken),
              SLACK_USER_OAUTH_TOKEN |-> Some(UserToken)]
    /\ config = None
    /\ con_result = None
    /\ requests = <<>>
    /\ transport = <<>>
    /\ arrived = <<>>
    /\ sock = <<>>
    /\ pubs = <<>>
    /\ pubResults = <<>>
    /\ stdout = <<>>
    /\ panic = None

\* tungstenite::Message::Text(serde_json::to_string(&ack).expect(..))
Serialize ==
    /\ pc = "to_string"
    /\ sock' = Append(sock, to_string(cur))
    /\ pc' = "done"
    /\ UNCHANGED <<env, config, con_result, requests, transport, arrived, cur,
                   pubs, pubResults, stdout, panic>>

SerializeSpec == SerializeInit /\ [][Serialize]_vars

---------------------------------------------------------------------------
(* Vocabulary of the properties: what a frame is on the wire, whatever the *)
(* program makes of it.                                                    *)

WireTag(m) ==
    IF m.ws = "Text" /\ m.json = "object" /\ m.type.k = "string" THEN m.type.raw ELSE <<>>

\* A text frame {"type":"disconnect","reason":<any string>, ...}
IsDisconnectFrame(m) == WireTag(m) = disconnect_tag /\ m.reason.k = "string"

\* A text frame {"type":"events_api","envelope_id":<any string>, ...}
IsEventsApiFrame(m) == WireTag(m) = events_api_tag /\ m.envelope_id.k = "string"

IsHelloFrame(m) == WireTag(m) = hello_tag

\* Invalid JSON, JSON without "type", or a "type" that names no message kind.
IsMalformedText(m) ==
    /\ m.ws = "Text"
    /\ \/ m.json = "invalid"
       \/ m.type.k = "absent"
       \/ m.type.k = "string"
          /\ m.type.raw \notin {hello_tag, disconnect_tag, events_api_tag}

\* The envelope id a frame carries: the value of its string literal.
EnvelopeId(m) == Unescape(m.envelope_id.raw)

\* {"envelope_id":"<id>"}
ExpectedAck(id) ==
    <<"{","\"","e","n","v","e","l","o","p","e","_","i","d","\"",":","\"">>
    \o id \o <<"\"","}">>

LastItem == arrived[Len(arrived)]
JustYielded == Len(arrived') = Len(arrived) + 1 /\ arrived'[Len(arrived')].res = "Ok"
NewMessage == arrived'[Len(arrived')].msg

\* The positions of the frames that were yielded and whose acknowledgement
\* step is behind the program (the process did not die in it).
PastAck(i) ==
    /\ i \in 1..Len(arrived)
    /\ arrived[i].res = "Ok"
    /\ \/ i < Len(arrived)
       \/ pc # "send" /\ panic # Some(<<"Failed to reply ack message">>)

\* C1: every events_api text frame with envelope id E received while Active
\* has exactly one acknowledgement {"envelope_id":E} (no payload) on the
\* socket once its send is over, and no publish call is issued before the
\* acknowledgement of its frame was sent.
C1_AckForEveryEventsApiFrame ==
    /\ \A i \in 1..Len(arrived) :
          (PastAck(i) /\ IsEventsApiFrame(arrived[i].msg)) =>
             Cardinality({ k \in 1..Len(sock) :
                             sock[k] = ExpectedAck(EnvelopeId(arrived[i].msg)) })
             = Cardinality({ j \in 1..Len(arrived) :
                               /\ PastAck(j) /\ IsEventsApiFrame(arrived[j].msg)
                               /\ EnvelopeId(arrived[j].msg) = EnvelopeId(arrived[i].msg) })
    /\ Len(pubs) <= Len(sock)

\* C2: once a valid disconnect frame (any reason string) has been received,
\* the machine is Terminated and that frame is the last one consumed.
C2_DisconnectTerminates ==
    \A i \in 1..Len(arrived) :
        (arrived[i].res = "Ok" /\ IsDisconnectFrame(arrived[i].msg)) =>
            State = "Terminated" /\ i = Len(arrived)

C4_HelloIsNoOp ==
    [][ (JustYielded /\ IsHelloFrame(NewMessage)) =>
            /\ State = "Active" /\ pc' = pc
            /\ UNCHANGED <<env, config, con_result, requests, transport, cur,
                           sock, pubs, pubResults, panic>>
            /\ stdout' = Append(stdout, [label |-> "Hello: ", t |-> NewMessage, s |-> <<>>])
       ]_vars

\* C4 witness: the same hello frame twice in a row, then a third frame.
C4_Witness ==
    /\ Len(arrived) = 3
    /\ IsHelloFrame(arrived[1].msg) /\ arrived[2] = arrived[1]
    /\ Len(stdout) >= 2 /\ stdout[1] = stdout[2]
    /\ State = "Active"

\* C5: a descriptor with ok=false aborts the process before any transport
\* step is started, with the descriptor's error string, or "Unknown error"
\* when it has none, in the message.
C5_FailedBootstrapNeverConnects ==
    (con_result.some /\ ~con_result.v.ok) =>
        /\ State = "Terminated"
        /\ transport = <<>>
        /\ arrived = <<>>
        /\ panic.some
        /\ \/ con_result.v.error.some
              /\ panic.v = <<"app.connections.open failed: ", con_result.v.error.v>>
           \/ ~con_result.v.error.some
              /\ panic.v = <<"app.connections.open failed: ", "Unknown error">>

\* C5 witness: a failed descriptor that carries a url all the same.
C5_Witness ==
    /\ con_result.some /\ ~con_result.v.ok
    /\ con_result.v.url.some /\ con_result.v.url.v.parses
    /\ ~con_result.v.error.some
    /\ pc = "done"

---------------------------------------------------------------------------
\* The acknowledgements of the events_api frames of a sequence of stream
\* items, in the order of the items.
RECURSIVE AcksOf(_)
AcksOf(items) ==
    IF items = <<>> THEN <<>>
    ELSE (IF Head(items).res = "Ok" /\ IsEventsApiFrame(Head(items).msg)
          THEN <<ExpectedAck(EnvelopeId(Head(items).msg))>>
          ELSE <<>>)
         \o AcksOf(Tail(items))

\* a is b with some of its elements left out.
RECURSIVE IsSubSeq(_, _)
IsSubSeq(a, b) ==
    IF a = <<>> THEN TRUE
    ELSE IF b = <<>> THEN FALSE
    ELSE IF Head(a) = Head(b) THEN IsSubSeq(Tail(a), Tail(b))
    ELSE IsSubSeq(a, Tail(b))

\* C6: frames are handled one at a time and in arrival order: no item is
\* pulled from the stream while an acknowledgement send or a publish call
\* of the frame before it has not returned, nothing is written on the socket
\* while a publish call is pending, and the acknowledgements on the socket
\* are in the order in which their events_api frames arrived.
C6_SequentialDispatch ==
    /\ [][ /\ pc \in {"send", "send_message"} => arrived' = arrived
           /\ pc = "send_message" => sock' = sock
           /\ Len(arrived') > Len(arrived) =>
                 pc = "next" /\ Len(pubResults) = Len(pubs) ]_vars
    /\ [](IsSubSeq(sock, AcksOf(arrived)))
    /\ [](pc \in {"send", "send_message"} =>
             Len(arrived) > 0 /\ LastItem.res = "Ok" /\ cur = LastItem.msg)

\* C6 witness: the publish call of the second of two events_api frames is
\* pending, and both acknowledgements are on the socket in arrival order.
C6_Witness ==
    /\ pc = "send_message"
    /\ Len(arrived) = 2
    /\ EnvelopeId(arrived[1].msg) = <<"E","2">>
    /\ EnvelopeId(arrived[2].msg) = <<"E","1">>
    /\ sock = <<ExpectedAck(<<"E","2">>), ExpectedAck(<<"E","1">>)>>
    /\ Len(pubs) = 2 /\ Len(pubResults) = 1

\* C7 as stated: a publish call that returns an error, or that completes
\* with a non-success response, terminates the process: it is the last call
\* and no frame is dispatched after it.
C7_PublishFailureIsFatal ==
    \A i \in 1..Len(pubResults) :
        pubResults[i] # "response_success" =>
            State = "Terminated" /\ i = Len(pubResults) /\ Len(pubs) = i

\* C7 as amended: a publish call that returns an error terminates the
\* process with "Failed to send message" and no frame is dispatched after it;
\* a call that completes with a response, success or not, is not a failure:
\* the loop goes on to await the next frame.
C7_PublishErrorIsFatal ==
    /\ [](\A i \in 1..Len(pubResults) :
            pubResults[i] = "error" =>
               /\ State = "Terminated" /\ panic = Some(<<"Failed to send message">>)
               /\ i = Len(pubResults) /\ Len(pubs) = i
               /\ cur = LastItem.msg)
    /\ [][ (Len(pubResults') > Len(pubResults)
            /\ pubResults'[Len(pubResults')] # "error") =>
               pc' = "next" /\ panic' = None ]_vars

\* C7 witness: a publish call completed with a non-success response, the
\* loop went on, and the publish call of a later frame returned an error.
C7_Witness ==
    /\ pubResults = <<"response_failure", "error">>
    /\ Len(arrived) = 2
    /\ pc = "done"

\* payload.event has no channel string or no text string, or there is no
\* payload.event.
LacksChannelOrText(m) ==
    \/ m.payload # "object" \/ m.event # "object"
    \/ m.channel.k # "string" \/ m.text.k # "string"

\* C8: an events_api frame without payload.event, or whose event has no
\* channel string or no text string, terminates the process at the
\* forwarder step: it is the last frame consumed and no publish call is
\* issued for it.
C8_MissingFieldsAreFatal ==
    \A i \in 1..Len(arrived) :
        (PastAck(i) /\ IsEventsApiFrame(arrived[i].msg)
           /\ LacksChannelOrText(arrived[i].msg)) =>
            /\ State = "Terminated" /\ panic.some
            /\ i = Len(arrived)
            /\ Len(pubs) = Len(pubResults)

\* C9: when the stream has ended, or the Disconnect arm has run (its line is
\* the last one printed), the machine is Terminated and the process did not
\* abort.
C9_LoopEndsCleanly ==
    (\/ Len(arrived) > 0 /\ LastItem.res = "None"
     \/ \E k \in 1..Len(stdout) : stdout[k].label = "Disconnect request: ")
    => /\ State = "Terminated"
       /\ ~panic.some
       /\ \/ LastItem.res = "None"
          \/ stdout[Len(stdout)].label = "Disconnect request: "
             /\ IsDisconnectFrame(LastItem.msg)

\* C9 witness: a disconnect with an empty reason ended a session that had
\* acknowledged and published an event.
C9_Witness ==
    /\ Len(arrived) = 2
    /\ IsDisconnectFrame(arrived[2].msg) /\ arrived[2].msg.reason.raw = <<>>
    /\ Len(pubResults) = 1
    /\ pc = "done"

\* The publish call of scenario C, for channel and text values c and x.
ExpectedPublish(c, x) ==
    [authorization |-> <<"Bearer", env.SLACK_USER_OAUTH_TOKEN.v>>,
     body |-> [channel |-> c,
               text |-> <<"Y","o","u"," ","s","a","i","d",":"," ",
                          "U+0060","U+0060","U+0060">> \o x
                        \o <<"U+0060","U+0060","U+0060">>]]

\* C10: publish calls are issued only by the step in which an
\* acknowledgement send succeeds, one at most; when the frame in progress
\* has channel C and text T (strings) that one call is issued, with the
\* user token in its Authorization header, channel C and the text
\* "You said: " followed by T between two fences of three backticks.
C10_PublishCall ==
    [][ /\ pubs' # pubs => pc = "send" /\ Len(sock') = Len(sock) + 1
        /\ (pc = "send" /\ Len(sock') = Len(sock) + 1
              /\ ~LacksChannelOrText(LastItem.msg)) =>
              pubs' = Append(pubs, ExpectedPublish(Unescape(LastItem.msg.channel.raw),
                                                   Unescape(LastItem.msg.text.raw)))
      ]_vars

\* C10 witness: scenario C (channel "C1", text "hi") was published with
\* success, and so was a text with an escaped quote.
C10_Witness ==
    /\ Len(pubs) = 2 /\ pubResults = <<"response_success", "response_success">>
    /\ pubs[1].authorization = <<"Bearer", "xoxp-1">>
    /\ pubs[1].body =
         [channel |-> <<"C","1">>,
          text |-> <<"Y","o","u"," ","s","a","i","d",":"," ",
                     "U+0060","U+0060","U+0060","h","i","U+0060","U+0060","U+0060">>]
    /\ pubs[2].body =
         [channel |-> <<"C","2">>,
          text |-> <<"Y","o","u"," ","s","a","i","d",":"," ",
                     "U+0060","U+0060","U+0060","a","\"","b","U+0060","U+0060","U+0060">>]

---------------------------------------------------------------------------
\* x is the inside of one JSON string literal: no bare quote or control
\* character, and every backslash starts a two-character escape.
RECURSIVE IsStringBody(_)
IsStringBody(x) ==
    IF x = <<>> THEN TRUE
    ELSE IF Head(x) = "\\"
         THEN /\ Len(x) >= 2
              /\ x[2] \in {"\"", "\\", "/", "n", "t"}
              /\ IsStringBody(SubSeq(x, 3, Len(x)))
         ELSE Head(x) \notin {"\"", "\n", "\t"} /\ IsStringBody(Tail(x))

\* C11: the serialisation of an acknowledgement for envelope id E without
\* payload is the JSON object {"envelope_id":<string literal of value E>}
\* and nothing else: there is no payload field, neither null nor a value.
C11_AckSerialization ==
    (pc = "done" /\ ~cur.payload.some) =>
        LET out == sock[1]
            body == SubSeq(out, 17, Len(out) - 2)
        IN /\ Len(sock) = 1 /\ Len(out) >= 18
           /\ SubSeq(out, 1, 16) =
                <<"{","\"","e","n","v","e","l","o","p","e","_","i","d","\"",":","\"">>
           /\ SubSeq(out, Len(out) - 1, Len(out)) = <<"\"","}">>
           /\ IsStringBody(body)
           /\ Unescape(body) = cur.envelope_id
           /\ cur.envelope_id = <<"a","b","c","1","2","3">> =>
                out = <<"{","\"","e","n","v","e","l","o","p","e","_","i","d","\"",":",
                        "\"","a","b","c","1","2","3","\"","}">>

\* C11 witness: the acknowledgement for "abc123" was serialised.
C11_Witness ==
    /\ pc = "done"
    /\ cur = [envelope_id |-> <<"a","b","c","1","2","3">>, payload |-> None]
    /\ sock = << <<"{","\"","e","n","v","e","l","o","p","e","_","i","d","\"",":",
                   "\"","a","b","c","1","2","3","\"","}">> >>

---------------------------------------------------------------------------
\* C12: when SLACK_APP_LEVEL_TOKEN or SLACK_USER_OAUTH_TOKEN is not set,
\* the first step of the process aborts it with a message that names a
\* variable that is missing; no control-plane request and no transport step
\* is ever made.
C12_MissingTokenAbortsAtStartup ==
    (~env.SLACK_APP_LEVEL_TOKEN.some \/ ~env.SLACK_USER_OAUTH_TOKEN.some) =>
        /\ requests = <<>> /\ transport = <<>> /\ arrived = <<>>
        /\ ~config.some /\ ~con_result.some
        /\ \/ pc = "start" /\ ~panic.some
           \/ /\ pc = "done" /\ panic.some
              /\ Len(panic.v) = 2
              /\ panic.v[1] = "Please set the environment variable "
              /\ \/ panic.v[2] = "SLACK_APP_LEVEL_TOKEN"
                    /\ ~env.SLACK_APP_LEVEL_TOKEN.some
                 \/ panic.v[2] = "SLACK_USER_OAUTH_TOKEN"
                    /\ ~env.SLACK_USER_OAUTH_TOKEN.some

\* C12 witness: only the user token is missing, and the process has aborted.
C12_Witness ==
    /\ env.SLACK_APP_LEVEL_TOKEN.some /\ ~env.SLACK_USER_OAUTH_TOKEN.some
    /\ pc = "done"
    /\ panic = Some(<<"Please set the environment variable ", "SLACK_USER_OAUTH_TOKEN">>)

---------------------------------------------------------------------------
\* C13: when the send of an acknowledgement returns without the
\* acknowledgement written on the socket, the process aborts with "Failed
\* to reply ack message": no publish call is issued for that frame, and the
\* frame stays the last one consumed.
C13_AckFailureIsFatal ==
    /\ [][ (pc = "send" /\ sock' = sock) =>
              /\ pc' = "done"
              /\ panic' = Some(<<"Failed to reply ack message">>)
              /\ pubs' = pubs /\ pubResults' = pubResults /\ arrived' = arrived
         ]_vars
    /\ [](panic = Some(<<"Failed to reply ack message">>) =>
            /\ State = "Terminated"
            /\ IsEventsApiFrame(LastItem.msg) /\ cur = LastItem.msg
            /\ Len(pubs) = Len(pubResults))
    /\ [][ panic = Some(<<"Failed to reply ack message">>) => UNCHANGED vars ]_vars

\* C13 witness: the acknowledgement of a second, complete events_api frame
\* failed after the first one was acknowledged and published.
C13_Witness ==
    /\ panic = Some(<<"Failed to reply ack message">>)
    /\ Len(arrived) = 2
    /\ ~LacksChannelOrText(arrived[2].msg)
    /\ Len(sock) = 1 /\ Len(pubs) = 1 /\ Len(pubResults) = 1

---------------------------------------------------------------------------
TransportOrder == <<"parse", "tcp", "tls", "ws">>

TransportFailures ==
    { <<"no url passed from server">>, <<"Failed to parse entrypoint url">>,
      <<"no domain name?">>, <<"Failed to connect tcp stream">>,
      <<"Failed to connect encrypted stream">>, <<"Failed to connect websocket">> }

\* C14: the transport steps are started in the order url parse, tcp
\* connect, encryption handshake, websocket upgrade, each at most once; the
\* session is Active (or has read an item) only after a descriptor with
\* ok=true and a url and after all four steps; a descriptor with ok=true
\* and no url, or a failed step, leaves the process Terminated with that
\* step the last one started and no item read from the stream.
C14_ActiveOnlyAfterTransport ==
    /\ [](/\ Len(transport) <= 4
          /\ transport = SubSeq(TransportOrder, 1, Len(transport)))
    /\ []((State = "Active" \/ arrived # <<>>) =>
            /\ con_result.some /\ con_result.v.ok /\ con_result.v.url.some
            /\ con_result.v.url.v.parses /\ con_result.v.url.v.domain.some
            /\ transport = TransportOrder
            /\ Len(requests) = 1)
    /\ []((con_result.some /\ con_result.v.ok /\ ~con_result.v.url.some) =>
            /\ State = "Terminated" /\ panic = Some(<<"no url passed from server">>)
            /\ transport = <<>>)
    /\ []((panic.some /\ panic.v \in TransportFailures) =>
            /\ State = "Terminated" /\ Len(requests) = 1
            /\ arrived = <<>> /\ sock = <<>> /\ pubs = <<>> /\ stdout = <<>>)
    /\ [][ LET failed == /\ pc' = "done" /\ transport' = transport
                         /\ panic'.some /\ panic'.v \in TransportFailures
           IN /\ pc = "tcp_connect" => pc' = "tls_connect" \/ failed
              /\ pc = "tls_connect" => pc' = "client_async" \/ failed
              /\ pc = "client_async" => pc' = "next" \/ failed ]_vars

\* C14 witness: scenario A, the descriptor {ok:true, url:"wss://x/y"} led to
\* an Active session on host x.
C14_Witness ==
    /\ State = "Active"
    /\ con_result.some /\ con_result.v.ok
    /\ con_result.v.url = Some([text |-> "wss://x/y", parses |-> TRUE, domain |-> Some("x")])
    /\ transport = <<"parse", "tcp", "tls", "ws">>
    /\ arrived = <<>>

---------------------------------------------------------------------------
\* C15: an item of the stream that is a decode error terminates the
\* process at that item with "Failed to decode websocket frame": nothing is
\* written on the socket or published for it, and it is the last item
\* consumed, whatever was handled before it.
C15_DecodeErrorIsFatal ==
    /\ [](\A i \in 1..Len(arrived) :
            arrived[i].res = "Err" =>
               /\ i = Len(arrived)
               /\ State = "Terminated"
               /\ panic = Some(<<"Failed to decode websocket frame">>)
               /\ Len(pubs) = Len(pubResults))
    /\ [][ (Len(arrived') = Len(arrived) + 1
            /\ arrived'[Len(arrived')].res = "Err") =>
              sock' = sock /\ pubs' = pubs /\ pubResults' = pubResults
              /\ stdout' = stdout ]_vars

\* C15 witness: the decode error came after a hello and an events_api frame
\* that was acknowledged and published.
C15_Witness ==
    /\ Len(arrived) = 3
    /\ IsHelloFrame(arrived[1].msg)
    /\ IsEventsApiFrame(arrived[2].msg)
    /\ arrived[3].res = "Err"
    /\ Len(sock) = 1 /\ pubResults = <<"response_success">>
    /\ pc = "done"

---------------------------------------------------------------------------
\* C16: a ping, binary, close or pong frame leaves the machine Active and
\* awaiting the next item: the program writes nothing on the socket for it
\* (no pong for a ping), issues no publish call and does not terminate (not
\* on a close frame either); it prints one line.
C16_PingAndOtherAreIgnored ==
    [][ (JustYielded /\ NewMessage.ws \in {"Ping", "Binary", "Close", "Pong"}) =>
            /\ pc = "next" /\ pc' = "next"
            /\ UNCHANGED <<env, config, con_result, requests, transport, cur,
                           sock, pubs, pubResults, panic>>
            /\ Len(stdout') = Len(stdout) + 1
            /\ stdout'[Len(stdout')].label =
                 (IF NewMessage.ws = "Ping" THEN "ping: " ELSE "Unknown frame")
      ]_vars

\* C16 witness: a ping and a close frame were consumed and the session is
\* still Active with nothing written.
C16_Witness ==
    /\ Len(arrived) = 2
    /\ arrived[1].msg.ws = "Ping" /\ arrived[2].msg.ws = "Close"
    /\ State = "Active" /\ sock = <<>> /\ pubs = <<>>

---------------------------------------------------------------------------
\* The number of events_api frames among the items consumed.
EventsApiCount == Cardinality({ i \in 1..Len(arrived) :
                                  arrived[i].res = "Ok" /\ IsEventsApiFrame(arrived[i].msg) })

\* C17: publish calls never outnumber the acknowledgements sent, which never
\* outnumber the events_api frames consumed; a publish call is issued only
\* in a step that sends an acknowledgement, one per step, so a frame is
\* published at most once and a call that failed is not issued again.
C17_AtMostOncePublish ==
    /\ [](/\ Len(pubs) <= Len(sock)
          /\ Len(sock) <= EventsApiCount
          /\ Len(pubResults) <= Len(pubs) /\ Len(pubs) <= Len(pubResults) + 1)
    /\ [][ /\ Len(pubs') <= Len(pubs) + 1
           /\ Len(pubs') - Len(pubs) <= Len(sock') - Len(sock)
           /\ Len(sock') <= Len(sock) + 1
           /\ Len(sock') > Len(sock) => pc = "send" /\ cur = LastItem.msg
           /\ (Len(pubResults) > 0 /\ pubResults[Len(pubResults)] = "error") =>
                 pubs' = pubs ]_vars

\* C17 witness: the acknowledgement for E1 is on the socket, its only
\* publish call failed, and the process is Terminated: acknowledged and not
\* delivered.
C17_Witness ==
    /\ Len(arrived) = 1 /\ IsEventsApiFrame(arrived[1].msg)
    /\ sock = <<ExpectedAck(<<"E","1">>)>>
    /\ Len(pubs) = 1 /\ pubResults = <<"error">>
    /\ State = "Terminated" /\ panic.some

---------------------------------------------------------------------------
Rank(s) == CASE s = "Connecting" -> 0 [] s = "Active" -> 1 [] OTHER -> 2

\* The protocol state as a function of main's position.
StateAt(p) ==
    CASE p \in {"start", "open_connections", "tcp_connect", "tls_connect",
                "client_async"} -> "Connecting"
      [] p \in {"next", "send", "send_message"} -> "Active"
      [] OTHER -> "Terminated"

\* C18: a run makes at most one control-plane request and starts each
\* transport step at most once; the state never moves backwards along
\* Connecting, Active, Terminated; and once Terminated nothing happens any
\* more: no request, no transport step, no item read, no acknowledgement,
\* no publish call.
C18_SingleShot ==
    /\ [](/\ Len(requests) <= 1
          /\ \A i, j \in 1..Len(transport) : transport[i] = transport[j] => i = j
          /\ State = StateAt(pc))
    /\ [][ Rank(StateAt(pc')) >= Rank(StateAt(pc)) ]_vars
    /\ [][ StateAt(pc) = "Terminated" => UNCHANGED vars ]_vars

\* C18 witness: a session that acknowledged an event and then saw the
\* stream end is Terminated, with one request and one transport open made.
C18_Witness ==
    /\ State = "Terminated" /\ ~panic.some
    /\ Len(arrived) = 2 /\ arrived[2].res = "None"
    /\ Len(sock) = 1
    /\ Len(requests) = 1 /\ transport = <<"parse", "tcp", "tls", "ws">>

---------------------------------------------------------------------------
\* The acknowledgements of the frames for which the EventsApi arm ran (each
\* printed "Events API Message: <frame>"), in the order of the lines.
RECURSIVE DispatchedAcks(_)
DispatchedAcks(lines) ==
    IF lines = <<>> THEN <<>>
    ELSE (IF Head(lines).label = "Events API Message: "
          THEN <<ExpectedAck(EnvelopeId(Head(lines).t))>>
          ELSE <<>>)
         \o DispatchedAcks(Tail(lines))

\* The last acknowledgement send has not returned, or it failed.
AckNotSent == pc = "send" \/ panic = Some(<<"Failed to reply ack message">>)

\* C19: what the client has written on the socket is exactly the
\* acknowledgements of the frames dispatched as events_api, one per frame
\* and in their order, repeated envelope ids included; the one exception is
\* the last such frame while its send is pending or when it failed.
C19_SocketHoldsExactlyTheAcks ==
    LET acks == DispatchedAcks(stdout)
    IN /\ AckNotSent => Len(acks) > 0 /\ sock = SubSeq(acks, 1, Len(acks) - 1)
       /\ ~AckNotSent => sock = acks
       /\ \A k \in 1..Len(sock) : \E i \in 1..Len(arrived) :
             /\ arrived[i].res = "Ok" /\ IsEventsApiFrame(arrived[i].msg)
             /\ sock[k] = ExpectedAck(EnvelopeId(arrived[i].msg))

\* C19 witness: two events_api frames with the same envelope id E1 gave two
\* acknowledgements for E1 and two publish calls.
C19_Witness ==
    /\ Len(arrived) = 2
    /\ sock = <<ExpectedAck(<<"E","1">>), ExpectedAck(<<"E","1">>)>>
    /\ Len(pubs) = 2 /\ pubs[1] = pubs[2]

---------------------------------------------------------------------------
\* A text frame of a known kind whose required field is absent or is no
\* string: a disconnect without reason, an events_api without envelope_id.
LacksRequiredField(m) ==
    \/ WireTag(m) = disconnect_tag /\ m.reason.k # "string"
    \/ WireTag(m) = events_api_tag /\ m.envelope_id.k # "string"

\* C20: a disconnect frame without a reason string and an events_api frame
\* without an envelope_id string are handled as unknown text frames: the
\* machine stays Active and awaits the next item, nothing is acknowledged
\* or published (also when payload.event is complete) and the session does
\* not terminate.
C20_MissingFieldMeansMalformed ==
    [][ (JustYielded /\ LacksRequiredField(NewMessage)) =>
            /\ pc = "next" /\ pc' = "next"
            /\ UNCHANGED <<cur, sock, pubs, pubResults, panic>>
            /\ stdout' = Append(stdout, [label |-> "Unknown text frame: ",
                                         t |-> NewMessage, s |-> <<>>])
      ]_vars

\* C20 witness: an events_api frame without envelope_id but with a complete
\* payload.event, a disconnect with a number as reason and a disconnect
\* without reason were consumed; the session is Active and wrote nothing.
C20_Witness ==
    /\ Len(arrived) = 3
    /\ WireTag(arrived[1].msg) = events_api_tag
    /\ arrived[1].msg.envelope_id.k = "absent" /\ ~LacksChannelOrText(arrived[1].msg)
    /\ WireTag(arrived[2].msg) = disconnect_tag /\ arrived[2].msg.reason.k = "number"
    /\ WireTag(arrived[3].msg) = disconnect_tag /\ arrived[3].msg.reason.k = "absent"
    /\ State = "Active" /\ sock = <<>> /\ pubs = <<>>

====
